---- MODULE Spec2Model ----
(***************************************************************************)
(* Model of the HostConfiguration storage migration v8 -> v9               *)
(* (polkadot/runtime/parachains/src/configuration/migration/v9.rs).        *)
(*                                                                         *)
(* The state is the pallet's storage (ActiveConfig, PendingConfigs and the *)
(* on-chain StorageVersion) plus the observable results of the last hook   *)
(* call.  Option values are sequences: <<>> is None and <<x>> is Some(x).  *)
(***************************************************************************)
EXTENDS Integers, Sequences, FiniteSets, TLC

VARIABLES storage, lastCall, before, weight, writes, defensive, postResult, runs, migrations

vars == <<storage, lastCall, before, weight, writes, defensive, postResult, runs, migrations>>

(***************************************************************************)
(* Bounds of the model.                                                    *)
(***************************************************************************)
MaxPending == 2

MaxRuns == 2

(***************************************************************************)
(* Storage keys.  A storage_alias StorageValue<Pallet<T>, ..> lives under  *)
(* the pair (pallet prefix, name of the alias); the module the alias is    *)
(* declared in and its value type are not part of the key.                 *)
(***************************************************************************)
PalletPrefix == "Configuration"

v8_ActiveConfig == <<PalletPrefix, "ActiveConfig">>

v8_PendingConfigs == <<PalletPrefix, "PendingConfigs">>

v9_ActiveConfig_own_key == <<PalletPrefix, "ActiveConfigV9">>

v9_ActiveConfig == <<PalletPrefix, "ActiveConfig">>

v9_PendingConfigs == <<PalletPrefix, "PendingConfigs">>

StorageVersionKey == <<PalletPrefix, ":__STORAGE_VERSION__:">>

StorageKeys == {v8_ActiveConfig, v8_PendingConfigs, v9_ActiveConfig, v9_PendingConfigs, StorageVersionKey}

(***************************************************************************)
(* Stored values carry the type they were encoded from; a typed get        *)
(* yields None when the key is absent or the value does not decode as the  *)
(* alias's value type.                                                     *)
(***************************************************************************)
TyV8 == "V8HostConfiguration"

TyV9 == "V9HostConfiguration"

TyPendingV8 == "Vec<(SessionIndex, V8HostConfiguration)>"

TyPendingV9 == "Vec<(SessionIndex, V9HostConfiguration)>"

TyVersion == "StorageVersion"

TyCorrupt == "undecodable"

Stored(ty, v) == [ty |-> ty, val |-> <<v>>]

Corrupt == [ty |-> TyCorrupt, val |-> <<>>]

StorageValueGet(st, key, ty) ==
    IF st[key] # <<>> /\ st[key][1].ty = ty THEN <<st[key][1].val[1]>> ELSE <<>>

\* A context is the storage together with the list of keys written so far.
StorageValueSet(ctx, key, ty, opt) ==
    [ctx EXCEPT !.storage[key] = IF opt = <<>> THEN <<>> ELSE <<Stored(ty, opt[1])>>,
                !.writes = Append(@, key)]

StorageVersionGet(st) ==
    IF st[StorageVersionKey] = <<>> THEN 0 ELSE st[StorageVersionKey][1].val[1]

StorageVersionPut(ctx, v) ==
    [ctx EXCEPT !.storage[StorageVersionKey] = <<Stored(TyVersion, v)>>,
                !.writes = Append(@, StorageVersionKey)]

(***************************************************************************)
(* Weights: the number of database reads and writes charged.               *)
(***************************************************************************)
DbWeightReads(r) == [reads |-> r, writes |-> 0]

DbWeightReadsWrites(r, w) == [reads |-> r, writes |-> w]

(***************************************************************************)
(* Host configurations.                                                    *)
(***************************************************************************)
LEGACY_MIN_BACKING_VOTES == 2

DefaultV8 ==
    [ max_code_size                             |-> 0,
      max_head_data_size                        |-> 0,
      max_upward_queue_count                    |-> 0,
      max_upward_queue_size                     |-> 0,
      max_upward_message_size                   |-> 0,
      max_upward_message_num_per_candidate      |-> 0,
      hrmp_max_message_num_per_candidate        |-> 0,
      validation_upgrade_cooldown               |-> 0,
      validation_upgrade_delay                  |-> 2,
      max_pov_size                              |-> 0,
      max_downward_message_size                 |-> 0,
      hrmp_sender_deposit                       |-> 0,
      hrmp_recipient_deposit                    |-> 0,
      hrmp_channel_max_capacity                 |-> 0,
      hrmp_channel_max_total_size               |-> 0,
      hrmp_max_parachain_inbound_channels       |-> 0,
      hrmp_max_parachain_outbound_channels      |-> 0,
      hrmp_channel_max_message_size             |-> 0,
      code_retention_period                     |-> 0,
      on_demand_cores                           |-> 0,
      on_demand_retries                         |-> 0,
      group_rotation_frequency                  |-> 1,
      paras_availability_period                 |-> 1,
      scheduling_lookahead                      |-> 1,
      max_validators_per_core                   |-> <<>>,
      max_validators                            |-> <<>>,
      dispute_period                            |-> 6,
      dispute_post_conclusion_acceptance_period |-> 100,
      no_show_slots                             |-> 1,
      n_delay_tranches                          |-> 0,
      zeroth_delay_tranche_width                |-> 0,
      needed_approvals                          |-> 0,
      relay_vrf_modulo_samples                  |-> 0,
      pvf_voting_ttl                            |-> 2,
      minimum_validation_upgrade_delay          |-> 2,
      async_backing_params                      |-> [max_candidate_depth |-> 0, allowed_ancestry_len |-> 0],
      executor_params                           |-> <<>>,
      on_demand_queue_max_size                  |-> 10000,
      on_demand_base_fee                        |-> 10000000,
      on_demand_fee_variability                 |-> 30000000,
      on_demand_target_queue_utilization        |-> 250000000,
      on_demand_ttl                             |-> 5 ]

\* The record of tests::test_migrate_to_v9.
TestV8 ==
    [DefaultV8 EXCEPT !.needed_approvals = 69,
                      !.paras_availability_period = 55,
                      !.hrmp_recipient_deposit = 1337,
                      !.max_pov_size = 1111,
                      !.minimum_validation_upgrade_delay = 20]

SharedFields == DOMAIN DefaultV8

\* A value of field f that differs from its default and from every other field's.
AltValue(f) ==
    CASE f = "async_backing_params" -> [max_candidate_depth |-> 3, allowed_ancestry_len |-> 4]
      [] f = "executor_params" -> <<8, 9>>
      [] f \in {"max_validators_per_core", "max_validators"} -> <<5>>
      [] OTHER -> 77

\* One record per field, differing from the default in that field only.
V8Variants == {[DefaultV8 EXCEPT ![f] = AltValue(f)] : f \in SharedFields}

V8Configs == {DefaultV8, TestV8} \union V8Variants

translate_miscopy(pre) ==
    [f \in SharedFields \union {"minimum_backing_votes"} |->
        IF f = "minimum_backing_votes" THEN LEGACY_MIN_BACKING_VOTES
        ELSE IF f = "hrmp_recipient_deposit" THEN pre.hrmp_sender_deposit
        ELSE pre[f]]

translate(pre) ==
    [ max_code_size                             |-> pre.max_code_size,
      max_head_data_size                        |-> pre.max_head_data_size,
      max_upward_queue_count                    |-> pre.max_upward_queue_count,
      max_upward_queue_size                     |-> pre.max_upward_queue_size,
      max_upward_message_size                   |-> pre.max_upward_message_size,
      max_upward_message_num_per_candidate      |-> pre.max_upward_message_num_per_candidate,
      hrmp_max_message_num_per_candidate        |-> pre.hrmp_max_message_num_per_candidate,
      validation_upgrade_cooldown               |-> pre.validation_upgrade_cooldown,
      validation_upgrade_delay                  |-> pre.validation_upgrade_delay,
      max_pov_size                              |-> pre.max_pov_size,
      max_downward_message_size                 |-> pre.max_downward_message_size,
      hrmp_sender_deposit                       |-> pre.hrmp_sender_deposit,
      hrmp_recipient_deposit                    |-> pre.hrmp_recipient_deposit,
      hrmp_channel_max_capacity                 |-> pre.hrmp_channel_max_capacity,
      hrmp_channel_max_total_size               |-> pre.hrmp_channel_max_total_size,
      hrmp_max_parachain_inbound_channels       |-> pre.hrmp_max_parachain_inbound_channels,
      hrmp_max_parachain_outbound_channels      |-> pre.hrmp_max_parachain_outbound_channels,
      hrmp_channel_max_message_size             |-> pre.hrmp_channel_max_message_size,
      code_retention_period                     |-> pre.code_retention_period,
      on_demand_cores                           |-> pre.on_demand_cores,
      on_demand_retries                         |-> pre.on_demand_retries,
      group_rotation_frequency                  |-> pre.group_rotation_frequency,
      paras_availability_period                 |-> pre.paras_availability_period,
      scheduling_lookahead                      |-> pre.scheduling_lookahead,
      max_validators_per_core                   |-> pre.max_validators_per_core,
      max_validators                            |-> pre.max_validators,
      dispute_period                            |-> pre.dispute_period,
      dispute_post_conclusion_acceptance_period |-> pre.dispute_post_conclusion_acceptance_period,
      no_show_slots                             |-> pre.no_show_slots,
      n_delay_tranches                          |-> pre.n_delay_tranches,
      zeroth_delay_tranche_width                |-> pre.zeroth_delay_tranche_width,
      needed_approvals                          |-> pre.needed_approvals,
      relay_vrf_modulo_samples                  |-> pre.relay_vrf_modulo_samples,
      pvf_voting_ttl                            |-> pre.pvf_voting_ttl,
      minimum_validation_upgrade_delay          |-> pre.minimum_validation_upgrade_delay,
      async_backing_params                      |-> pre.async_backing_params,
      executor_params                           |-> pre.executor_params,
      on_demand_queue_max_size                  |-> pre.on_demand_queue_max_size,
      on_demand_base_fee                        |-> pre.on_demand_base_fee,
      on_demand_fee_variability                 |-> pre.on_demand_fee_variability,
      on_demand_target_queue_utilization        |-> pre.on_demand_target_queue_utilization,
      on_demand_ttl                             |-> pre.on_demand_ttl,
      minimum_backing_votes                     |-> LEGACY_MIN_BACKING_VOTES ]

\* Option::defensive_proof hands the option back unchanged; a None is reported.
defensive_proof(opt) == [value |-> opt, reported |-> opt = <<>>]

unwrap_or_default(opt, default) == IF opt = <<>> THEN default ELSE opt[1]

\* for (session, v8) in pending_v8.into_iter() { pending_v9.push((session, translate(v8))) }
RECURSIVE TranslatePending_prepend(_, _)
TranslatePending_prepend(pending_v8, pending_v9) ==
    IF pending_v8 = <<>> THEN pending_v9
    ELSE TranslatePending_prepend(Tail(pending_v8),
                                  <<<<Head(pending_v8)[1], translate(Head(pending_v8)[2])>>>> \o pending_v9)

RECURSIVE TranslatePending(_, _)
TranslatePending(pending_v8, pending_v9) ==
    IF pending_v8 = <<>> THEN pending_v9
    ELSE TranslatePending(Tail(pending_v8),
                          Append(pending_v9, <<Head(pending_v8)[1], translate(Head(pending_v8)[2])>>))

\* let v8 = v8::ActiveConfig::get().defensive_proof(..).unwrap_or_default();
\* v9::ActiveConfig::set(Some(translate(v8)));
migrate_active_config_skip(ctx) ==
    LET loaded == defensive_proof(StorageValueGet(ctx.storage, v8_ActiveConfig, TyV8))
    IN  [ctx |-> IF loaded.value = <<>> THEN ctx
                 ELSE StorageValueSet(ctx, v9_ActiveConfig, TyV9, <<translate(loaded.value[1])>>),
         reported |-> loaded.reported]

migrate_active_config(ctx) ==
    LET loaded == defensive_proof(StorageValueGet(ctx.storage, v8_ActiveConfig, TyV8))
        v8 == unwrap_or_default(loaded.value, DefaultV8)
        v9 == translate(v8)
    IN  [ctx |-> StorageValueSet(ctx, v9_ActiveConfig, TyV9, <<v9>>),
         reported |-> loaded.reported]

\* let pending_v8 = v8::PendingConfigs::get().unwrap_or_default(); .. translate each ..
\* v9::PendingConfigs::set(Some(pending_v9.clone()));
migrate_pending_configs_none(ctx) ==
    LET pending_v8 == unwrap_or_default(StorageValueGet(ctx.storage, v8_PendingConfigs, TyPendingV8), <<>>)
        pending_v9 == TranslatePending(pending_v8, <<>>)
    IN  [ctx |-> StorageValueSet(ctx, v9_PendingConfigs, TyPendingV9,
                                 IF pending_v9 = <<>> THEN <<>> ELSE <<pending_v9>>),
         pending_v9 |-> pending_v9]

migrate_pending_configs(ctx) ==
    LET pending_v8 == unwrap_or_default(StorageValueGet(ctx.storage, v8_PendingConfigs, TyPendingV8), <<>>)
        pending_v9 == TranslatePending(pending_v8, <<>>)
    IN  [ctx |-> StorageValueSet(ctx, v9_PendingConfigs, TyPendingV9, <<pending_v9>>),
         pending_v9 |-> pending_v9]

migrate_to_v9_len(ctx) ==
    LET active == migrate_active_config(ctx)
        pending == migrate_pending_configs(active.ctx)
        num_configs == Len(pending.pending_v9)
    IN  [ctx |-> pending.ctx,
         weight |-> DbWeightReadsWrites(num_configs, num_configs),
         reported |-> active.reported]

migrate_to_v9(ctx) ==
    LET active == migrate_active_config(ctx)
        pending == migrate_pending_configs(active.ctx)
        num_configs == Len(pending.pending_v9) + 1
    IN  [ctx |-> pending.ctx,
         weight |-> DbWeightReadsWrites(num_configs, num_configs),
         reported |-> active.reported]

Migrated(m) == [ctx |-> m.ctx, weight |-> m.weight, reported |-> m.reported, migrated |-> TRUE]

Skipped(ctx) == [ctx |-> ctx, weight |-> DbWeightReads(1), reported |-> FALSE, migrated |-> FALSE]

on_runtime_upgrade_at_least(ctx) ==
    IF StorageVersionGet(ctx.storage) >= 8
    THEN LET weight_consumed == migrate_to_v9(ctx)
         IN  Migrated([weight_consumed EXCEPT !.ctx = StorageVersionPut(@, 9)])
    ELSE Skipped(ctx)

on_runtime_upgrade_no_put(ctx) ==
    IF StorageVersionGet(ctx.storage) = 8
    THEN Migrated(migrate_to_v9(ctx))
    ELSE Skipped(ctx)

on_runtime_upgrade_put_first(ctx) ==
    IF StorageVersionGet(ctx.storage) = 8
    THEN Migrated(migrate_to_v9(StorageVersionPut(ctx, 9)))
    ELSE Skipped(ctx)

on_runtime_upgrade(ctx) ==
    IF StorageVersionGet(ctx.storage) = 8
    THEN LET weight_consumed == migrate_to_v9(ctx)
         IN  Migrated([weight_consumed EXCEPT !.ctx = StorageVersionPut(@, 9)])
    ELSE Skipped(ctx)

post_upgrade_exact(st) == IF StorageVersionGet(st) = 9 THEN "Ok" ELSE "Err"

post_upgrade(st) == IF StorageVersionGet(st) >= 9 THEN "Ok" ELSE "Err"

(***************************************************************************)
(* Initial storage.                                                        *)
(***************************************************************************)
SessionIndices == {100, 200, 300}

PendingRecords == {DefaultV8, TestV8, [DefaultV8 EXCEPT !.on_demand_ttl = 77]}

\* Pending lists are kept sorted by strictly increasing session index.
PendingListsOf(records) ==
    UNION {{p \in [1..n -> SessionIndices \X records] :
              \A i \in 1..n : \A j \in 1..n : i < j => p[i][1] < p[j][1]} : n \in 0..MaxPending}

Versions == {7, 8, 9, 10}

V8ActiveSlots == {<<>>, <<Corrupt>>} \union {<<Stored(TyV8, r)>> : r \in V8Configs}

V8PendingSlots == {<<>>, <<Corrupt>>} \union {<<Stored(TyPendingV8, p)>> : p \in PendingListsOf(PendingRecords)}

OtherActiveSlots ==
    {<<>>, <<Corrupt>>, <<Stored(TyV8, TestV8)>>, <<Stored(TyV9, translate(TestV8))>>,
     <<Stored(TyV9, [translate(DefaultV8) EXCEPT !.minimum_backing_votes = 3])>>}

OtherPendingSlots ==
    {<<>>, <<Corrupt>>, <<Stored(TyPendingV8, <<<<100, TestV8>>>>)>>,
     <<Stored(TyPendingV9, <<>>)>>,
     <<Stored(TyPendingV9, <<<<100, translate(TestV8)>>, <<300, translate(DefaultV8)>>>>)>>}

VersionSlots == {<<>>} \union {<<Stored(TyVersion, v)>> : v \in Versions}

InitStorage(ver, active, pending) ==
    [k \in StorageKeys |->
        IF k = StorageVersionKey THEN ver
        ELSE IF k = v8_ActiveConfig THEN active
        ELSE IF k = v8_PendingConfigs THEN pending
        ELSE <<>>]

NoSnapshot == [k \in StorageKeys |-> <<>>]

Init ==
    /\ \E ver \in VersionSlots :
          \/ /\ ver = <<Stored(TyVersion, 8)>>
             /\ \E active \in V8ActiveSlots : \E pending \in V8PendingSlots :
                   storage = InitStorage(ver, active, pending)
          \/ /\ ver # <<Stored(TyVersion, 8)>>
             /\ \E active \in OtherActiveSlots : \E pending \in OtherPendingSlots :
                   storage = InitStorage(ver, active, pending)
    /\ lastCall = "none"
    /\ before = NoSnapshot
    /\ weight = DbWeightReads(0)
    /\ writes = <<>>
    /\ defensive = FALSE
    /\ postResult = "none"
    /\ runs = 0
    /\ migrations = 0

(***************************************************************************)
(* The hooks of MigrateToV9.                                               *)
(***************************************************************************)
PreUpgrade ==
    /\ lastCall' = "pre_upgrade"
    /\ UNCHANGED <<storage, before, weight, writes, defensive, postResult, runs, migrations>>

OnRuntimeUpgrade ==
    /\ runs < MaxRuns
    /\ LET r == on_runtime_upgrade([storage |-> storage, writes |-> <<>>])
       IN  /\ storage' = r.ctx.storage
           /\ writes' = r.ctx.writes
           /\ weight' = r.weight
           /\ defensive' = r.reported
           /\ migrations' = migrations + (IF r.migrated THEN 1 ELSE 0)
    /\ before' = storage
    /\ lastCall' = "on_runtime_upgrade"
    /\ runs' = runs + 1
    /\ UNCHANGED postResult

PostUpgrade ==
    /\ lastCall = "on_runtime_upgrade"
    /\ postResult' = post_upgrade(storage)
    /\ lastCall' = "post_upgrade"
    /\ UNCHANGED <<storage, before, weight, writes, defensive, runs, migrations>>

Next == PreUpgrade \/ OnRuntimeUpgrade \/ PostUpgrade

Spec == Init /\ [][Next]_vars

(***************************************************************************)
(* Properties.  `before` is the storage as it was when the last            *)
(* on_runtime_upgrade was entered.                                         *)
(***************************************************************************)
HasRun == runs > 0

RanFromV8 == HasRun /\ StorageVersionGet(before) = 8

OldActive == StorageValueGet(before, v8_ActiveConfig, TyV8)

OldPending == StorageValueGet(before, v8_PendingConfigs, TyPendingV8)

OldPendingLen == IF OldPending = <<>> THEN 0 ELSE Len(OldPending[1])

NewActive == StorageValueGet(storage, v9_ActiveConfig, TyV9)

NewPending == StorageValueGet(storage, v9_PendingConfigs, TyPendingV9)

RecordKeys == {v8_ActiveConfig, v8_PendingConfigs, v9_ActiveConfig, v9_PendingConfigs}

RecordWrites == Cardinality({i \in 1..Len(writes) : writes[i] \in RecordKeys})

VersionWrites == Cardinality({i \in 1..Len(writes) : writes[i] = StorageVersionKey})

\* C1: when the stored version is not 8 (lower, higher or never written),
\* on_runtime_upgrade writes nothing (ActiveConfig, PendingConfigs and the
\* version are unchanged) and returns the weight of one read and no write,
\* whatever the stored records are.
C1_VersionGateNoOp ==
    (HasRun /\ StorageVersionGet(before) # 8) =>
        /\ storage = before
        /\ writes = <<>>
        /\ weight = [reads |-> 1, writes |-> 0]

C1_Witness ==
    /\ HasRun
    /\ StorageVersionGet(before) = 10
    /\ before[v8_ActiveConfig] = <<Stored(TyV8, TestV8)>>
    /\ before[v8_PendingConfigs] = <<Stored(TyPendingV8, <<<<100, TestV8>>>>)>>
    /\ storage = before

\* C2 as stated: after a run from version 8 the v8 and v9 aliases are
\* different storage locations and the values under the v8 ActiveConfig and
\* v8 PendingConfigs keys are what they were before the run.
C2_OldSchemaUntouched ==
    RanFromV8 =>
        /\ v8_ActiveConfig # v9_ActiveConfig
        /\ v8_PendingConfigs # v9_PendingConfigs
        /\ storage[v8_ActiveConfig] = before[v8_ActiveConfig]
        /\ storage[v8_PendingConfigs] = before[v8_PendingConfigs]

\* C2 amended: the migration is in place.  After a run from version 8 the
\* location read through the v8 ActiveConfig alias holds the v9 record
\* written by the run, and the location read through the v8 PendingConfigs
\* alias holds the v9 list; neither holds its value of before the run.
C2_MigratedInPlace ==
    RanFromV8 =>
        /\ storage[v8_ActiveConfig] = <<Stored(TyV9, translate(unwrap_or_default(OldActive, DefaultV8)))>>
        /\ storage[v8_ActiveConfig] # before[v8_ActiveConfig]
        /\ storage[v8_PendingConfigs] # <<>>
        /\ storage[v8_PendingConfigs][1].ty = TyPendingV9
        /\ storage[v8_PendingConfigs] # before[v8_PendingConfigs]

C2_Witness ==
    /\ RanFromV8
    /\ before[v8_ActiveConfig] = <<Stored(TyV8, TestV8)>>
    /\ before[v8_PendingConfigs] = <<Stored(TyPendingV8, <<<<100, TestV8>>, <<300, TestV8>>>>)>>
    /\ storage[v8_ActiveConfig] = <<Stored(TyV9, translate(TestV8))>>

\* C3: after a run from version 8 over a stored v8 pending list p, the v9
\* pending list has the length of p and its i-th entry is the i-th session
\* index of p paired with the translation of the i-th record of p.
C3_PendingOrderPreserved ==
    (RanFromV8 /\ OldPending # <<>>) =>
        /\ NewPending # <<>>
        /\ Len(NewPending[1]) = Len(OldPending[1])
        /\ \A i \in 1..Len(OldPending[1]) :
              /\ NewPending[1][i][1] = OldPending[1][i][1]
              /\ NewPending[1][i][2] = translate(OldPending[1][i][2])

C3_Witness ==
    /\ RanFromV8
    /\ OldPending = <<<<<<100, TestV8>>, <<300, DefaultV8>>>>>>
    /\ NewPending = <<<<<<100, translate(TestV8)>>, <<300, translate(DefaultV8)>>>>>>

\* C4: every v9 record written by a run from version 8 (the active record
\* and every pending entry) has each shared field equal to the same field of
\* the v8 record it comes from, nested values included, has no other field
\* than the shared ones and minimum_backing_votes, and has
\* minimum_backing_votes = LEGACY_MIN_BACKING_VOTES.
FieldFidelity(old, new) ==
    /\ DOMAIN new = SharedFields \union {"minimum_backing_votes"}
    /\ \A f \in SharedFields : new[f] = old[f]
    /\ new.minimum_backing_votes = LEGACY_MIN_BACKING_VOTES

C4_FieldFidelity ==
    RanFromV8 =>
        /\ OldActive # <<>> =>
              NewActive # <<>> /\ FieldFidelity(OldActive[1], NewActive[1])
        /\ OldPending # <<>> =>
              /\ NewPending # <<>>
              /\ Len(NewPending[1]) = Len(OldPending[1])
              /\ \A i \in 1..Len(OldPending[1]) :
                    FieldFidelity(OldPending[1][i][2], NewPending[1][i][2])

C4_Witness ==
    /\ RanFromV8
    /\ OldActive = <<[DefaultV8 EXCEPT !.hrmp_sender_deposit = 77]>>
    /\ OldPending # <<>>
    /\ Len(OldPending[1]) = 2
    /\ OldPending[1][2][2] = TestV8
    /\ NewActive # <<>>
    /\ NewActive[1].hrmp_sender_deposit = 77
    /\ NewActive[1].minimum_backing_votes = 2

\* C5: a run from version 8 over a pending list of m entries (m = 0 when
\* the list is absent) returns the weight of 1 + m reads and 1 + m writes.
C5_CostAccounting ==
    RanFromV8 => weight = [reads |-> 1 + OldPendingLen, writes |-> 1 + OldPendingLen]

C5_Witness ==
    /\ RanFromV8
    /\ OldPendingLen = 2
    /\ weight = [reads |-> 3, writes |-> 3]

\* C6: when the v8 active record is absent or does not decode, a run from
\* version 8 completes: the v9 active record is translate(default v8
\* record), the absence is reported, and the pending list, the version and
\* the weight are as on the normal path.
C6_DefensiveDefault ==
    (RanFromV8 /\ OldActive = <<>>) =>
        /\ NewActive = <<translate(DefaultV8)>>
        /\ defensive
        /\ NewPending # <<>>
        /\ Len(NewPending[1]) = OldPendingLen
        /\ StorageVersionGet(storage) = 9
        /\ weight = [reads |-> 1 + OldPendingLen, writes |-> 1 + OldPendingLen]

C6_Witness ==
    /\ RanFromV8
    /\ before[v8_ActiveConfig] = <<>>
    /\ OldPendingLen = 1
    /\ NewActive = <<translate(DefaultV8)>>

\* C7: when the v8 pending list is absent, a run from version 8 completes,
\* returns the weight of one read and one write, and leaves a present,
\* empty v9 pending list.
C7_EmptyPending ==
    (RanFromV8 /\ before[v8_PendingConfigs] = <<>>) =>
        /\ storage[v9_PendingConfigs] = <<Stored(TyPendingV9, <<>>)>>
        /\ weight = [reads |-> 1, writes |-> 1]
        /\ StorageVersionGet(storage) = 9

C7_Witness ==
    /\ RanFromV8
    /\ before[v8_PendingConfigs] = <<>>
    /\ before[v8_ActiveConfig] = <<Stored(TyV8, DefaultV8)>>
    /\ storage[v9_PendingConfigs] = <<Stored(TyPendingV9, <<>>)>>

\* C8: the records are translated at most once over any sequence of runs,
\* and every run after the first writes nothing, leaves the storage as the
\* run before it left it, and returns the weight of one read.
C8_SecondRunNoOp ==
    /\ migrations <= 1
    /\ runs >= 2 =>
          /\ storage = before
          /\ writes = <<>>
          /\ weight = [reads |-> 1, writes |-> 0]

C8_Witness ==
    /\ runs = 2
    /\ migrations = 1
    /\ StorageVersionGet(storage) = 9
    /\ NewActive = <<translate(TestV8)>>
    /\ NewPending = <<<<<<100, translate(TestV8)>>>>>>

\* C9 as stated: a run writes the version at most once and makes at most
\* 1 + len(pending list) writes to the ActiveConfig and PendingConfigs
\* values, an absent list counting as length 0.
C9_WriteBound ==
    HasRun =>
        /\ VersionWrites <= 1
        /\ RecordWrites <= 1 + OldPendingLen

\* C9 amended: a run from version 8 makes exactly three writes, in this
\* order: ActiveConfig, PendingConfigs, then the version, set to 9; that is
\* two record writes whatever the length of the pending list.  A run from
\* another version writes nothing.
C9_WritesOfOneRun ==
    HasRun =>
        IF StorageVersionGet(before) = 8
        THEN /\ writes = <<v9_ActiveConfig, v9_PendingConfigs, StorageVersionKey>>
             /\ RecordWrites = 2
             /\ VersionWrites = 1
             /\ StorageVersionGet(storage) = 9
        ELSE /\ writes = <<>>
             /\ StorageVersionGet(storage) = StorageVersionGet(before)

C9_Witness ==
    /\ RanFromV8
    /\ OldPendingLen = 0
    /\ RecordWrites = 2
    /\ VersionWrites = 1

\* C10: post_upgrade called after on_runtime_upgrade returns Ok exactly when
\* the version before the run was at least 8, and the version only ever
\* changes from 8 to 9.
C10_PostUpgradeAndVersion ==
    /\ [](lastCall = "post_upgrade" =>
            (postResult = "Ok" <=> StorageVersionGet(before) >= 8))
    /\ [][StorageVersionGet(storage') # StorageVersionGet(storage) =>
            (StorageVersionGet(storage) = 8 /\ StorageVersionGet(storage') = 9)]_vars

C10_Witness ==
    /\ lastCall = "post_upgrade"
    /\ StorageVersionGet(before) = 10
    /\ postResult = "Ok"

====
